---- MODULE Spec2Model ----
(***************************************************************************)
(* ESPRE (src/espre.py): one run of main() -- dependency check, temporary  *)
(* directory, three external commands, feature loading, reshaping of the   *)
(* per-bin feature table into one wide row, alignment to the training      *)
(* schema, stacked-ensemble prediction, thresholding, result file, and the *)
(* except/finally clean-up.                                                *)
(*                                                                         *)
(* pandas frames are modelled by what the calls do: a frame is a record    *)
(* [index, columns, data] with data[r][c] a cell, and a cell is either a   *)
(* number or NaN.  Probabilities are in hundredths (50 is 0.5).            *)
(***************************************************************************)
EXTENDS Integers, Sequences, FiniteSets, TLC

\* ------------------------------------------------------------- bounds
MaxRows == 2
MaxSchema == 2

Bins == {"b1", "b2"}
Vals == {1, 2}
Probs == {0, 49, 50, 51, 80, 81}

\* ---------------------------------------------------- program constants
cutoff == 50
flag_cutoff == 80
predict_cutoff == 50

\* ------------------------------------------------------------- cells
NaN == [nan |-> TRUE, v |-> 0]
Num(x) == [nan |-> FALSE, v |-> x]

\* ------------------------------------------------------- small helpers
RECURSIVE SeqsUpTo(_, _)
SeqsUpTo(S, n) ==
  IF n = 0 THEN {<<>>}
  ELSE LET shorter == SeqsUpTo(S, n - 1)
       IN shorter \cup {Append(s, x) : s \in {t \in shorter : Len(t) = n - 1}, x \in S}

Range(s) == {s[i] : i \in 1..Len(s)}
IsInjective(s) == \A i, j \in 1..Len(s) : s[i] = s[j] => i = j
Enumerations(S) == {s \in [1..Cardinality(S) -> S] : IsInjective(s)}
Reorderings(s) == {[i \in 1..Len(s) |-> s[p[i]]] : p \in Enumerations(1..Len(s))}

\* f"ratio.corrected_{c}" / f"GC_{c}": the prefix and the bin id, joined
ColName(prefix, c) == <<prefix, c>>

FeatureRows == [bin_id : Bins, ratio_corrected : Vals, GC : Vals]
FeatureTables == SeqsUpTo(FeatureRows, MaxRows)
SchemaCols == {ColName(f, b) : f \in {"ratio.corrected", "GC"}, b \in Bins}
\* a training schema names at least one feature, each once
Schemas == {s \in SeqsUpTo(SchemaCols, MaxSchema) : Len(s) > 0 /\ IsInjective(s)}

\* ------------------------------------------------------------- pandas
\* df.empty
\* faulty variant: the emptiness test never fires
df_never_empty(df) == FALSE
df_empty(df) == Len(df) = 0

\* df_feat.set_index('bin_id')[[feat]].T, columns renamed to f"{feat}_{c}"
transposed(df, feat) ==
  [index |-> <<feat>>,
   columns |-> [i \in 1..Len(df) |-> ColName(feat, df[i].bin_id)],
   data |-> << [i \in 1..Len(df) |->
                 Num(IF feat = "GC" THEN df[i].GC ELSE df[i].ratio_corrected)] >>]

IndexPos(index, label) == CHOOSE q \in 1..Len(index) : index[q] = label

\* pd.concat([a, b], axis=1): outer join on the row labels
concat_axis1(a, b) ==
  LET idx == a.index \o SelectSeq(b.index, LAMBDA l : l \notin Range(a.index))
      part(f, l) == IF l \in Range(f.index)
                    THEN f.data[IndexPos(f.index, l)]
                    ELSE [c \in 1..Len(f.columns) |-> NaN]
  IN [index |-> idx,
      columns |-> a.columns \o b.columns,
      data |-> [r \in 1..Len(idx) |-> part(a, idx[r]) \o part(b, idx[r])]]

\* pd.DataFrame(fill, index=index, columns=columns)
\* faulty variant: the frame is created without the fill value
new_frame_nan(fill, index, columns) ==
  [index |-> index, columns |-> columns,
   data |-> [r \in 1..Len(index) |-> [c \in 1..Len(columns) |-> NaN]]]
new_frame(fill, index, columns) ==
  [index |-> index, columns |-> columns,
   data |-> [r \in 1..Len(index) |-> [c \in 1..Len(columns) |-> Num(fill)]]]

RECURSIVE PositionsFrom(_, _, _)
PositionsFrom(cols, k, j) ==
  IF j > Len(cols) THEN <<>>
  ELSE (IF cols[j] = k THEN <<j>> ELSE <<>>) \o PositionsFrom(cols, k, j + 1)

RECURSIVE KeyPositions(_, _, _)
KeyPositions(cols, key, i) ==
  IF i > Len(key) THEN <<>>
  ELSE PositionsFrom(cols, key[i], 1) \o KeyPositions(cols, key, i + 1)

\* frame[key] for a list key: every column labelled key[i], in key's order
getitem_cols(frame, key) ==
  LET pos == KeyPositions(frame.columns, key, 1)
  IN [index |-> frame.index,
      columns |-> [p \in 1..Len(pos) |-> frame.columns[pos[p]]],
      data |-> [r \in 1..Len(frame.index) |->
                 [p \in 1..Len(pos) |-> frame.data[r][pos[p]]]]]

\* the Series frame.iloc[:, j]
column_series(frame, j) ==
  [index |-> frame.index,
   values |-> [r \in 1..Len(frame.index) |-> frame.data[r][j]]]

\* Series.reindex(new_index): by label, NaN where the label is missing
reindex(series, new_index) ==
  [r \in 1..Len(new_index) |->
     IF new_index[r] \in Range(series.index)
     THEN series.values[IndexPos(series.index, new_index[r])]
     ELSE NaN]

\* frame[k] = series: the series is aligned to the frame's index first
setitem_series(frame, k, series) ==
  LET vals == reindex(series, frame.index)
  IN IF k \in Range(frame.columns)
     THEN [index |-> frame.index,
           columns |-> frame.columns,
           data |-> [r \in 1..Len(frame.index) |->
                      [c \in 1..Len(frame.columns) |->
                         IF frame.columns[c] = k THEN vals[r] ELSE frame.data[r][c]]]]
     ELSE [index |-> frame.index,
           columns |-> Append(frame.columns, k),
           data |-> [r \in 1..Len(frame.index) |-> Append(frame.data[r], vals[r])]]

RECURSIVE assign_pairs(_, _, _, _, _)
assign_pairs(frame, key, value, i, n) ==
  IF i > n THEN frame
  ELSE assign_pairs(setitem_series(frame, key[i], column_series(value, i)),
                    key, value, i + 1, n)

\* for k1, k2 in zip(key, value.columns): self[k1] = value[k2]
\* faulty variant: the loop stops one pair early
zip_assign_short(frame, key, value) ==
  assign_pairs(frame, key, value, 1, Len(key) - 1)
zip_assign(frame, key, value) ==
  assign_pairs(frame, key, value, 1, Len(key))

\* frame[key] = value for a list key and a DataFrame value:
\* "Columns must be same length as key" (ValueError), else column by column
setitem_array(frame, key, value) ==
  IF Len(value.columns) # Len(key)
  THEN [raised |-> TRUE, frame |-> frame]
  ELSE [raised |-> FALSE, frame |-> zip_assign(frame, key, value)]

\* --------------------------------------------------------- main, 169-182
build_wide(df) == concat_axis1(transposed(df, "ratio.corrected"), transposed(df, "GC"))

common_set(wide, cols) == Range(wide.columns) \cap Range(cols)

\* faulty variant: the common columns are selected, the zero frame is not used
align_unfilled(wide, cols, order) ==
  [raised |-> FALSE, frame |-> getitem_cols(wide, order)]
align(wide, cols, order) ==
  setitem_array(new_frame(0, <<"0">>, cols), order, getitem_cols(wide, order))

\* --------------------------------------------------------- main, 188-205
\* faulty variant: strict comparison at the label threshold
label_strict(p) == IF p > cutoff THEN "SCZ" ELSE "Normal"
label(p) == IF p >= cutoff THEN "SCZ" ELSE "Normal"
note(p) == IF p > flag_cutoff THEN "Flagged High Risk" ELSE ""
predict(p) == IF p >= predict_cutoff THEN 1 ELSE 0

\* run_cmd: sys.exit on a nonzero return code
\* faulty variant: the return code is not acted upon
run_cmd_ignores(ret) == FALSE
run_cmd_exits(ret) == ret # 0

\* finally: if os.path.exists(tmp_dir): shutil.rmtree(tmp_dir)
\* faulty variant: only a directory this run created is removed.
\* (line 216 consults os.path.exists alone, not who created the directory)
finally_only_created(exists, made) == IF exists /\ made THEN FALSE ELSE exists
finally_tmp(exists, made) == IF exists THEN FALSE ELSE exists

\* ----------------------------------------- StackingWrapper.predict_proba
\* What the unpickled artifact holds: the names of trained_base_models_ in
\* insertion order, and the input names the meta-model was trained against.
ModelArtifacts ==
  {[base_names |-> bs, meta_names |-> ms] :
     bs \in {<<"A", "B">>, <<"B", "A">>}, ms \in {{"A", "B"}, {"A", "C"}}}
NoModel == [base_names |-> <<>>, meta_names |-> {}]

\* What the opaque estimators do on this input: the preprocessor or a base
\* model raises, the meta-model raises, or the meta-model returns p.
Outcomes ==
  {[raises |-> s, p |-> 0] : s \in {"transform", "base", "meta"}}
    \cup {[raises |-> "none", p |-> p] : p \in Probs}

\* level1_preds gets one column per base model, named by the model's name,
\* and is handed to meta_model.predict_proba as it is.
predict_proba(m, X, out) ==
  IF out.raises \in {"transform", "base"}
  THEN [raised |-> TRUE, meta_called |-> FALSE, level1_cols |-> <<>>, p |-> 0]
  ELSE [raised |-> out.raises = "meta", meta_called |-> TRUE,
        level1_cols |-> m.base_names, p |-> out.p]

\* ------------------------------------------------------------- state
VARIABLES pc, tmp_exists, tmp_pre, tmp_made, exc, exit_status, failure, done,
          df_feat, X_input, train_cols, common_cols, X_final,
          model, meta_called, meta_input, prob, pred_label, result

vars == <<pc, tmp_exists, tmp_pre, tmp_made, exc, exit_status, failure, done,
          df_feat, X_input, train_cols, common_cols, X_final,
          model, meta_called, meta_input, prob, pred_label, result>>

tmpvars == <<tmp_exists, tmp_made>>
datavars == <<df_feat, X_input, train_cols, common_cols, X_final>>
predvars == <<model, meta_called, meta_input, prob, pred_label>>

NoFrame == [index |-> <<>>, columns |-> <<>>, data |-> <<>>]

Init ==
  /\ pc = "check_dependencies"
  /\ tmp_pre \in BOOLEAN
  /\ tmp_exists = tmp_pre
  /\ tmp_made = FALSE
  /\ exc = "none"
  /\ exit_status = "running"
  /\ failure = "none"
  /\ done = {}
  /\ df_feat = <<>>
  /\ X_input = NoFrame
  /\ train_cols = <<>>
  /\ common_cols = <<>>
  /\ X_final = NoFrame
  /\ model = NoModel
  /\ meta_called = FALSE
  /\ meta_input = <<>>
  /\ prob = 0
  /\ pred_label = ""
  /\ result = <<>>

\* sys.exit inside the try block: SystemExit is not an Exception, so the
\* except clause is skipped and the finally clause runs
SysExit(why) ==
  /\ pc' = "finally"
  /\ exc' = "SystemExit"
  /\ failure' = why

\* an Exception inside the try block: caught at line 209
Raise(why) ==
  /\ pc' = "except"
  /\ exc' = "Exception"
  /\ failure' = why

\* lines 71-80 and 118: outside the try block, sys.exit ends the process
CheckDependencies ==
  /\ pc = "check_dependencies"
  /\ \E missing \in BOOLEAN :
       IF missing
       THEN /\ pc' = "exited"
            /\ exit_status' = "nonzero"
            /\ failure' = "dependencies"
            /\ done' = done
       ELSE /\ pc' = "makedirs"
            /\ done' = done \cup {"check"}
            /\ UNCHANGED <<exit_status, failure>>
  /\ UNCHANGED <<tmpvars, tmp_pre, exc, datavars, predvars, result>>

\* lines 121-125
MakeTmpDir ==
  /\ pc = "makedirs"
  /\ tmp_exists' = TRUE
  /\ tmp_made' = ~tmp_exists
  /\ pc' = "step1"
  /\ done' = done \cup {"makedirs"}
  /\ UNCHANGED <<tmp_pre, exc, exit_status, failure, datavars, predvars, result>>

\* run_cmd (lines 82-88) for the steps of lines 128-156
RunCmd(step, next) ==
  /\ pc = step
  /\ \E ret \in {0, 1} :
       /\ done' = done \cup {step}
       /\ IF run_cmd_exits(ret)
          THEN SysExit(step)
          ELSE /\ pc' = next
               /\ failure' = IF ret # 0 THEN step ELSE failure
               /\ exc' = exc
  /\ UNCHANGED <<tmpvars, tmp_pre, exit_status, datavars, predvars, result>>

Step1 == RunCmd("step1", "step2")
Step2 == RunCmd("step2", "step3")
Step3 == RunCmd("step3", "load_features")

\* lines 161-167
LoadFeatures ==
  /\ pc = "load_features"
  /\ \E exists \in BOOLEAN, tbl \in FeatureTables :
       IF ~exists
       THEN /\ SysExit("nofile")
            /\ UNCHANGED <<df_feat, done>>
       ELSE /\ df_feat' = tbl
            /\ done' = done \cup {"read_csv"}
            /\ IF df_empty(tbl)
               THEN SysExit("empty")
               ELSE /\ pc' = "build"
                    /\ failure' = IF Len(tbl) = 0 THEN "empty" ELSE failure
                    /\ exc' = exc
  /\ UNCHANGED <<tmpvars, tmp_pre, exit_status, X_input, train_cols, common_cols,
                 X_final, predvars, result>>

\* lines 169-176
BuildWide ==
  /\ pc = "build"
  /\ X_input' = build_wide(df_feat)
  /\ pc' = "align"
  /\ done' = done \cup {"build"}
  /\ UNCHANGED <<tmpvars, tmp_pre, exc, exit_status, failure, df_feat, train_cols,
                 common_cols, X_final, predvars, result>>

\* lines 178-182; joblib.load(COLS_FILE) raises when the file is unreadable
\* (check_dependencies does not test it); list(set & set) enumerates the
\* common columns in an order the program does not control
AlignCols ==
  /\ pc = "align"
  /\ \E readable \in BOOLEAN, cols \in Schemas :
       IF ~readable
       THEN /\ Raise("load_cols")
            /\ UNCHANGED <<train_cols, common_cols, X_final, done>>
       ELSE \E order \in Enumerations(common_set(X_input, cols)) :
              LET out == align(X_input, cols, order)
              IN /\ train_cols' = cols
                 /\ common_cols' = order
                 /\ X_final' = out.frame
                 /\ IF out.raised
                    THEN /\ Raise("align")
                         /\ done' = done \cup {"load_cols"}
                    ELSE /\ pc' = "predict"
                         /\ done' = done \cup {"load_cols", "align"}
                         /\ UNCHANGED <<exc, failure>>
  /\ UNCHANGED <<tmpvars, tmp_pre, exit_status, df_feat, X_input, predvars, result>>

\* lines 184-190; joblib.load(MODEL_FILE) may raise as well
Predict ==
  /\ pc = "predict"
  /\ \E loadable \in BOOLEAN, m \in ModelArtifacts, o \in Outcomes :
       IF ~loadable
       THEN /\ Raise("load_model")
            /\ UNCHANGED <<predvars, done>>
       ELSE LET r == predict_proba(m, X_final, o)
            IN /\ model' = m
               /\ meta_called' = r.meta_called
               /\ meta_input' = r.level1_cols
               /\ IF r.raised
                  THEN /\ Raise("predict")
                       /\ done' = done \cup {"load_model"}
                       /\ UNCHANGED <<prob, pred_label>>
                  ELSE /\ prob' = r.p
                       /\ pred_label' = label(r.p)
                       /\ pc' = "output"
                       /\ done' = done \cup {"load_model", "predict"}
                       /\ UNCHANGED <<exc, failure>>
  /\ UNCHANGED <<tmpvars, tmp_pre, exit_status, datavars, result>>

\* lines 192-207
Output ==
  /\ pc = "output"
  /\ result' = Append(result, [Prediction |-> pred_label, Probability |-> prob,
                               Note |-> note(prob)])
  /\ pc' = "finally"
  /\ done' = done \cup {"to_csv"}
  /\ UNCHANGED <<tmpvars, tmp_pre, exc, exit_status, failure, datavars, predvars>>

\* lines 209-212: sys.exit inside the handler, so the finally clause runs
\* with SystemExit pending
Except ==
  /\ pc = "except"
  /\ pc' = "finally"
  /\ exc' = "SystemExit"
  /\ done' = done \cup {"except"}
  /\ UNCHANGED <<tmpvars, tmp_pre, exit_status, failure, datavars, predvars, result>>

\* lines 214-217, then the process ends: status 0, or 1 for sys.exit(message)
Finally ==
  /\ pc = "finally"
  /\ tmp_exists' = finally_tmp(tmp_exists, tmp_made)
  /\ pc' = "exited"
  /\ exit_status' = IF exc = "none" THEN "zero" ELSE "nonzero"
  /\ done' = done \cup {"finally"}
  /\ UNCHANGED <<tmp_pre, tmp_made, exc, failure, datavars, predvars, result>>

Next ==
  \/ CheckDependencies
  \/ MakeTmpDir
  \/ Step1
  \/ Step2
  \/ Step3
  \/ LoadFeatures
  \/ BuildWide
  \/ AlignCols
  \/ Predict
  \/ Output
  \/ Except
  \/ Finally

Spec == Init /\ [][Next]_vars

\* ------------------------------------------------------------ claims
BinIds(df) == [i \in 1..Len(df) |-> df[i].bin_id]
UniqueBins(df) == IsInjective(BinIds(df))
Aligned == "align" \in done
Written == result # <<>>

\* C1: once the aligned frame has been built (line 180 onwards), its columns
\* are exactly the training schema, in the schema's order and number, every
\* row is as wide as the schema, and no column of the wide frame that the
\* schema lacks occurs in it.
C1_AlignedShape ==
  "load_cols" \in done =>
    /\ X_final.columns = train_cols
    /\ Len(X_final.columns) = Len(train_cols)
    /\ Len(X_final.index) = 1
    /\ \A r \in 1..Len(X_final.index) : Len(X_final.data[r]) = Len(train_cols)
    /\ \A c \in Range(X_input.columns) \ Range(train_cols) :
         c \notin Range(X_final.columns)

\* the wide frame is larger than the schema and shares no column with it
C1_Witness ==
  /\ Aligned
  /\ train_cols # <<>>
  /\ common_set(X_input, train_cols) = {}
  /\ Len(X_input.columns) > Len(train_cols)

\* C2 (as claimed): with unique bin ids, every schema column produced for the
\* sample holds the feature table's value for that bin and feature, and the
\* aligned row has no NaN entry.
C2_CopyByValue ==
  (Aligned /\ UniqueBins(df_feat)) =>
    /\ \A i \in 1..Len(df_feat), c \in 1..Len(train_cols) :
         /\ train_cols[c] = ColName("ratio.corrected", df_feat[i].bin_id)
              => X_final.data[1][c] = Num(df_feat[i].ratio_corrected)
         /\ train_cols[c] = ColName("GC", df_feat[i].bin_id)
              => X_final.data[1][c] = Num(df_feat[i].GC)
    /\ \A c \in 1..Len(train_cols) : ~X_final.data[1][c].nan

\* C3: every schema column that the wide frame lacks is present in the aligned
\* frame with the value 0, whatever else the wide frame holds.
C3_DefaultFill ==
  "load_cols" \in done =>
    \A c \in 1..Len(train_cols) :
      train_cols[c] \notin Range(X_input.columns)
        => /\ c \in 1..Len(X_final.columns)
           /\ X_final.columns[c] = train_cols[c]
           /\ X_final.data[1][c] = Num(0)

\* alignment done with one schema column absent from the wide frame and
\* another one present in it
C3_Witness ==
  /\ Aligned
  /\ \E c \in 1..Len(train_cols) : train_cols[c] \notin Range(X_input.columns)
  /\ common_set(X_input, train_cols) # {}

\* C4: the label is SCZ exactly when the probability is at least 0.5 (so 0.5
\* itself is SCZ), in main and in StackingWrapper.predict; the written note is
\* 'Flagged High Risk' exactly when the probability exceeds 0.8 (so 0.8 itself
\* is not flagged, 0.81 is).
C4_Thresholds ==
  /\ "predict" \in done =>
       /\ (pred_label = "SCZ") <=> (prob >= 50)
       /\ pred_label \in {"SCZ", "Normal"}
       /\ (predict(prob) = 1) <=> (pred_label = "SCZ")
  /\ Written =>
       /\ (result[1].Note = "Flagged High Risk") <=> (result[1].Probability > 80)
       /\ result[1].Probability = 80 => result[1].Note = ""
       /\ result[1].Probability = 50 => result[1].Prediction = "SCZ"

\* a result written for a probability exactly at the label threshold
C4_Witness ==
  /\ Written
  /\ result[1].Probability = 50
  /\ result[1].Prediction = "SCZ"
  /\ result[1].Note = ""

\* C5: when the feature table read from the file has no rows, nothing after
\* the emptiness test runs -- no reshaping, schema loading, alignment, model
\* loading or prediction, no result -- and the process exits nonzero.
C5_EmptyTerminal ==
  ("read_csv" \in done /\ Len(df_feat) = 0) =>
    /\ done \cap {"build", "load_cols", "align", "load_model", "predict",
                  "to_csv", "except"} = {}
    /\ X_input = NoFrame /\ X_final = NoFrame /\ model = NoModel
    /\ ~Written
    /\ pc \in {"finally", "exited"}
    /\ pc = "exited" => exit_status = "nonzero"

C5_Witness ==
  /\ pc = "exited"
  /\ "read_csv" \in done
  /\ Len(df_feat) = 0
  /\ exit_status = "nonzero"

\* C6: a run in which a step failed never writes the result and ends with a
\* nonzero status; the result is written at most once, only after every step
\* before it succeeded, and the status is zero exactly in those runs.
StepsBeforeOutput ==
  {"check", "makedirs", "step1", "step2", "step3", "read_csv", "build",
   "load_cols", "align", "load_model", "predict"}

C6_NoResultOnFailure ==
  /\ failure # "none" => ~Written
  /\ Len(result) <= 1
  /\ Written => failure = "none" /\ StepsBeforeOutput \subseteq done
  /\ pc = "exited" =>
       /\ exit_status \in {"zero", "nonzero"}
       /\ failure # "none" => exit_status = "nonzero"
       /\ (exit_status = "zero") <=> (Len(result) = 1)

\* a run whose prediction raised has ended: nonzero, nothing written
C6_Witness ==
  /\ pc = "exited"
  /\ failure = "predict"
  /\ exit_status = "nonzero"
  /\ ~Written

\* C7 (as claimed): when the base-model names differ from the names the
\* meta-model expects, the meta-model is never called and no probability is
\* returned; whatever the meta-model is handed carries exactly its names.
C7_MismatchRejected ==
  /\ ("load_model" \in done /\ Range(model.base_names) # model.meta_names) =>
       /\ ~meta_called
       /\ "predict" \notin done
  /\ meta_called => Range(meta_input) = model.meta_names

\* C8 (as claimed): a feature table with two rows for one bin is never
\* scored: no prediction is made from it and no result is written, whether or
\* not the schema names the duplicated bin's columns.
C8_DuplicateRejected ==
  ("read_csv" \in done /\ ~UniqueBins(df_feat)) =>
    /\ "predict" \notin done
    /\ ~Written

\* C9: the outcome of the alignment (the aligned frame, or the error) is the
\* same for every order of the feature rows and every enumeration order of
\* the common columns; the written label and note are functions of the
\* probability alone.
C9_Determinism ==
  /\ (pc = "predict" \/ (pc = "except" /\ failure = "align")) =>
       \A df2 \in Reorderings(df_feat) :
         \A order2 \in Enumerations(common_set(build_wide(df2), train_cols)) :
           align(build_wide(df2), train_cols, order2)
             = [raised |-> failure = "align", frame |-> X_final]
  /\ Written =>
       result = << [Prediction |-> label(prob), Probability |-> prob,
                    Note |-> note(prob)] >>

\* aligned with two common columns and two feature rows: both orders matter
C9_Witness ==
  /\ pc = "predict"
  /\ Len(df_feat) >= 2
  /\ Len(common_cols) >= 2

\* C10: a run that reached the creation of the temporary directory ends with
\* the directory gone, whether it existed before the run or not and however
\* the run ended; a run that stopped in check_dependencies leaves it as it was.
C10_TmpCleanup ==
  /\ pc = "exited" =>
       IF "makedirs" \in done
       THEN ~tmp_exists
       ELSE failure = "dependencies" /\ tmp_exists = tmp_pre /\ ~tmp_made
  /\ "makedirs" \notin done => tmp_exists = tmp_pre /\ ~tmp_made

\* a directory that existed before the run, removed after an external step failed
C10_Witness ==
  /\ pc = "exited"
  /\ tmp_pre
  /\ failure = "step1"
  /\ "makedirs" \in done
  /\ ~tmp_exists

====
